---- MODULE Spec2Model ----
(***************************************************************************)
(* State-machine model of the Twilio <-> OpenAI Realtime bridge            *)
(* (app/bridge.py, class TwilioRealtimeBridge) together with the websocket *)
(* endpoint that drives it (app/api.py, media_stream).                     *)
(*                                                                         *)
(* The bridge runs on one asyncio event loop: code between two awaits is   *)
(* atomic, so every action below is the code from one suspension point to  *)
(* the next.  A relay that reads a frame and handles it without awaiting   *)
(* is one action; a handler that awaits a socket write is split at that    *)
(* write.  The two peers (the caller socket and the speech-service socket) *)
(* are the environment: the frame a relay reads is chosen with \E.         *)
(***************************************************************************)
EXTENDS Integers, Sequences, FiniteSets, TLC

\* ------------------------------------------------------------------ bounds
MaxTs == 2             \* largest media timestamp the caller sends
MaxMarks == 2          \* cap on the length of mark_queue
MaxShutdownCalls == 2  \* how many times shutdown() is invoked on one bridge

\* ------------------------------------------------------------- value sets
None == "None"         \* Python None for the str | None fields
NoTs == -1             \* Python None for the int | None field
StreamSids == {"MZ1", "MZ2"}
ItemIds == {"A", "B"}

\* Decimal text of a timestamp, as the telephony side sends it in JSON.
DigitChars == <<"0", "1", "2", "3", "4", "5", "6", "7", "8", "9">>

RECURSIVE ToText(_)
ToText(n) == IF n < 10 THEN <<DigitChars[n + 1]>>
             ELSE Append(ToText(n \div 10), DigitChars[(n % 10) + 1])

BadText == <<"x">>
TimestampTexts == {ToText(n) : n \in 0..MaxTs} \cup {BadText}

IsDigit(c) == \E i \in 1..10 : DigitChars[i] = c
DigitVal(c) == CHOOSE i \in 0..9 : DigitChars[i + 1] = c
IsNumeric(t) == Len(t) > 0 /\ \A i \in 1..Len(t) : IsDigit(t[i])

\* int(data["media"]["timestamp"]) for a numeric text
RECURSIVE ParseInt(_)
ParseInt(t) == IF Len(t) = 0 THEN 0
               ELSE ParseInt(SubSeq(t, 1, Len(t) - 1)) * 10 + DigitVal(t[Len(t)])

\* Frames read from the caller socket.  "garbage" is a text json.loads rejects.
NoFrame == [event |-> "none", timestamp |-> <<>>, streamSid |-> None]
MediaFrame(t) == [event |-> "media", timestamp |-> t, streamSid |-> None]
StartFrame(s) == [event |-> "start", timestamp |-> <<>>, streamSid |-> s]
MarkFrame == [event |-> "mark", timestamp |-> <<>>, streamSid |-> None]
StopFrame == [event |-> "stop", timestamp |-> <<>>, streamSid |-> None]
GarbageFrame == [event |-> "garbage", timestamp |-> <<>>, streamSid |-> None]

\* Events read from the speech-service socket.
\* delta payloads: "canonical" base64, "noncanonical" base64 that decodes
\* (b64decode drops characters outside the alphabet), "invalid" (bad padding).
Payloads == {"canonical", "noncanonical", "invalid"}
NoEvent == [type |-> "none", item_id |-> None, delta |-> None]
DeltaEvent(i, p) == [type |-> "response.output_audio.delta", item_id |-> i, delta |-> p]
SpeechStartedEvent == [type |-> "input_audio_buffer.speech_started", item_id |-> None, delta |-> None]
OtherEvent == [type |-> "response.done", item_id |-> None, delta |-> None]
GarbageEvent == [type |-> "garbage", item_id |-> None, delta |-> None]

\* Frames written to the caller socket.
NoOut == [event |-> "none", streamSid |-> None, payload |-> None]
OutMedia(s, p) == [event |-> "media", streamSid |-> s, payload |-> p]
OutMark(s) == [event |-> "mark", streamSid |-> s, payload |-> None]
OutClear(s) == [event |-> "clear", streamSid |-> s, payload |-> None]

\* Messages written to the speech-service socket.
NoMsg == [type |-> "none", item_id |-> None, audio_end_ms |-> 0]
TruncateMsg(i, ms) == [type |-> "conversation.item.truncate", item_id |-> i, audio_end_ms |-> ms]

VARIABLES
    \* --- TwilioRealtimeBridge attributes
    openai_ws,                        \* None or "ws"
    stream_sid,
    latest_media_timestamp,
    last_assistant_item,
    mark_queue,
    response_start_timestamp_twilio,
    tasks,                            \* self._tasks
    \* --- the two sockets
    wsState,      \* caller socket: "connecting", "connected", "disconnected", "closed"
    oaState,      \* speech-service socket: "NONE", "OPEN", "CLOSED"
    \* --- control state
    handler,      \* position of media_stream / start / run / shutdown
    handlerExc,   \* exception that left the try block of media_stream uncaught
    shutdownCalls,                    \* number of shutdown() invocations so far
    shutdownOutcome,                  \* "none", "running", "returned", "raised"
    initSent,     \* messages _initialize_session has sent to the speech service
    recvTask,     \* _receive_from_twilio: position or final state
    sendTask,     \* _send_to_twilio: position or final state
    data,                             \* last frame read by _receive_from_twilio
    response,                         \* last event read by _send_to_twilio
    truncate_event,   \* truncate_event of _handle_speech_started_event while it runs
    outFrame                          \* last frame written to the caller socket

bridgeVars == <<openai_ws, stream_sid, latest_media_timestamp, last_assistant_item,
                mark_queue, response_start_timestamp_twilio, tasks>>
sessionVars == <<stream_sid, latest_media_timestamp, last_assistant_item,
                 mark_queue, response_start_timestamp_twilio>>
socketVars == <<wsState, oaState>>
handlerVars == <<handler, handlerExc, shutdownCalls, shutdownOutcome, initSent>>
recvVars == <<recvTask, data>>
sendLocals == <<response, truncate_event, outFrame>>
sendVars == <<sendTask, sendLocals>>
vars == <<bridgeVars, socketVars, handlerVars, recvVars, sendVars>>

\* ------------------------------------------------------------------- Init
\* media_stream has constructed the bridge (__init__) and not yet called start.
Init ==
    /\ openai_ws = None
    /\ stream_sid = None
    /\ latest_media_timestamp = 0
    /\ last_assistant_item = None
    /\ mark_queue = <<>>
    /\ response_start_timestamp_twilio = NoTs
    /\ tasks = <<>>
    /\ wsState = "connecting"
    /\ oaState = "NONE"
    /\ handler = "start"
    /\ handlerExc = None
    /\ shutdownCalls = 0
    /\ shutdownOutcome = "none"
    /\ initSent = <<>>
    /\ recvTask = "unborn"
    /\ sendTask = "unborn"
    /\ data = NoFrame
    /\ response = NoEvent
    /\ truncate_event = NoMsg
    /\ outFrame = NoOut

\* ------------------------------------------------------------ task states
LiveStates == {"wait", "append_await", "close_await", "delta_media_await",
               "mark_await", "truncate_await", "clear_await"}
FinalStates == {"done", "failed", "cancelled"}

\* task.cancel(): CancelledError is thrown into a suspended task at its await;
\* neither relay catches it (except Exception does not), so the task ends
\* cancelled without running any more of its own code.  No-op on a done task.
Cancel(t) == IF t \in LiveStates THEN "cancelled" ELSE t

RecvName == "receive-from-twilio"
SendName == "send-to-twilio"

\* `await task` re-raises the exception of a task that failed;
\* contextlib.suppress(asyncio.CancelledError) swallows only cancellation.
AwaitRaises(t) == t = "failed"

\* ------------------------------------------------- TwilioRealtimeBridge.start
\* websocket.accept(subprotocol=...)
StartAccept ==
    /\ handler = "start"
    /\ wsState' = "connected"
    /\ handler' = "connect"
    /\ UNCHANGED <<bridgeVars, oaState, handlerExc, shutdownCalls, shutdownOutcome,
                   initSent, recvVars, sendVars>>

\* websockets.connect(...) succeeds
ConnectOk ==
    /\ handler = "connect"
    /\ openai_ws' = "ws"
    /\ oaState' = "OPEN"
    /\ handler' = "init_session_update"
    /\ UNCHANGED <<sessionVars, tasks, wsState, handlerExc, shutdownCalls,
                   shutdownOutcome, initSent, recvVars, sendVars>>

\* variant: start() logs the failure and returns normally
ConnectFail_Swallowed ==
    /\ handler = "connect"
    /\ handler' = "run"
    /\ UNCHANGED <<bridgeVars, socketVars, handlerExc, shutdownCalls, shutdownOutcome,
                   initSent, recvVars, sendVars>>

\* websockets.connect(...) raises: logged and re-raised; media_stream catches
\* neither WebSocketDisconnect nor CancelledError, so its finally runs shutdown.
ConnectFail ==
    /\ handler = "connect"
    /\ handlerExc' = "ConnectError"
    /\ handler' = "shutdown"
    /\ UNCHANGED <<bridgeVars, socketVars, shutdownCalls, shutdownOutcome, initSent,
                   recvVars, sendVars>>

\* _initialize_session / _send_initial_conversation_item: three sends in order.
InitMsgType(h) == CASE h = "init_session_update" -> "session.update"
                    [] h = "init_item_create" -> "conversation.item.create"
                    [] h = "init_response_create" -> "response.create"
\* variant: the request to generate a response is skipped
InitNext_SkipsResponse(h) == CASE h = "init_session_update" -> "init_item_create"
                               [] h = "init_item_create" -> "run"
                               [] h = "init_response_create" -> "run"

InitNext(h) == CASE h = "init_session_update" -> "init_item_create"
                 [] h = "init_item_create" -> "init_response_create"
                 [] h = "init_response_create" -> "run"

InitSend ==
    /\ handler \in {"init_session_update", "init_item_create", "init_response_create"}
    /\ IF oaState = "OPEN"
       THEN /\ initSent' = Append(initSent, InitMsgType(handler))
            /\ handler' = InitNext(handler)
            /\ UNCHANGED handlerExc
       ELSE \* openai_ws.send raises ConnectionClosed, which leaves start()
            /\ handlerExc' = "ConnectionClosed"
            /\ handler' = "shutdown"
            /\ UNCHANGED initSent
    /\ UNCHANGED <<bridgeVars, socketVars, shutdownCalls, shutdownOutcome,
                   recvVars, sendVars>>

\* --------------------------------------------------- TwilioRealtimeBridge.run
\* variant: the check of lines 55-56 is missing
Run_NoGuard ==
    /\ handler = "run"
    /\ recvTask' = "wait"
    /\ sendTask' = "wait"
    /\ tasks' = <<RecvName, SendName>>
    /\ handler' = "gather"
    /\ UNCHANGED <<openai_ws, sessionVars, socketVars, handlerExc, shutdownCalls,
                   shutdownOutcome, initSent, data, sendLocals>>

Run ==
    /\ handler = "run"
    /\ IF openai_ws = None
       THEN /\ handlerExc' = "RuntimeError"
            /\ handler' = "shutdown"
            /\ UNCHANGED <<tasks, recvTask, sendTask>>
       ELSE /\ recvTask' = "wait"
            /\ sendTask' = "wait"
            /\ tasks' = <<RecvName, SendName>>
            /\ handler' = "gather"
            /\ UNCHANGED handlerExc
    /\ UNCHANGED <<openai_ws, sessionVars, socketVars, shutdownCalls, shutdownOutcome,
                   initSent, data, sendLocals>>

\* run() is a public coroutine of the bridge.  A client other than
\* media_stream calls it on a bridge whose speech-service connection is not
\* established: before start(), or after a shutdown() that has reset
\* openai_ws to None.  Like media_stream it calls shutdown() afterwards.
RunDirect ==
    /\ handler \in {"start", "done"}
    /\ openai_ws = None
    /\ shutdownCalls < MaxShutdownCalls
    /\ handler' = "run"
    /\ UNCHANGED <<bridgeVars, socketVars, handlerExc, shutdownCalls, shutdownOutcome,
                   initSent, recvVars, sendVars>>

\* asyncio.gather(*self._tasks) returns once BOTH tasks have finished normally.
GatherDone(r, s) == r = "done" /\ s = "done"

GatherReturn ==
    /\ handler = "gather"
    /\ GatherDone(recvTask, sendTask)
    /\ handler' = "shutdown"
    /\ UNCHANGED <<bridgeVars, socketVars, handlerExc, shutdownCalls, shutdownOutcome,
                   initSent, recvVars, sendVars>>

\* gather propagates the first exception of a child; the other child keeps
\* running until shutdown cancels it.
GatherRaise ==
    /\ handler = "gather"
    /\ recvTask = "failed" \/ sendTask = "failed"
    /\ handlerExc' = "RelayError"
    /\ handler' = "shutdown"
    /\ UNCHANGED <<bridgeVars, socketVars, shutdownCalls, shutdownOutcome, initSent,
                   recvVars, sendVars>>

\* Cancelling _send_to_twilio discards the frame of a running
\* _handle_speech_started_event, and its local truncate_event with it.
DropLocal(s) == IF s \in LiveStates THEN NoMsg ELSE truncate_event

\* The server cancels the endpoint while it waits in gather: gather cancels
\* its children, media_stream catches CancelledError and runs shutdown.
ExternalCancel ==
    /\ handler = "gather"
    /\ recvTask' = Cancel(recvTask)
    /\ sendTask' = Cancel(sendTask)
    /\ truncate_event' = DropLocal(sendTask)
    /\ handler' = "shutdown"
    /\ UNCHANGED <<bridgeVars, socketVars, handlerExc, shutdownCalls, shutdownOutcome,
                   initSent, data, response, outFrame>>

\* ---------------------------------------------- TwilioRealtimeBridge.shutdown
TaskState(name, r, s) == IF name = RecvName THEN r ELSE s

\* lines 66-71: cancel every task, await every task, clear the list.
ShutdownTasks ==
    /\ handler = "shutdown"
    /\ shutdownCalls' = shutdownCalls + 1
    /\ LET r == IF \E i \in 1..Len(tasks) : tasks[i] = RecvName
                THEN Cancel(recvTask) ELSE recvTask
           s == IF \E i \in 1..Len(tasks) : tasks[i] = SendName
                THEN Cancel(sendTask) ELSE sendTask
       IN /\ recvTask' = r
          /\ sendTask' = s
          /\ IF \E i \in 1..Len(tasks) : AwaitRaises(TaskState(tasks[i], r, s))
             THEN /\ shutdownOutcome' = "raised"
                  /\ handler' = "done"
                  /\ UNCHANGED tasks
             ELSE /\ shutdownOutcome' = "running"
                  /\ tasks' = <<>>
                  /\ handler' = IF openai_ws # None THEN "shutdown_close_openai"
                                ELSE "shutdown_close_ws"
    /\ truncate_event' = DropLocal(sendTask)
    /\ UNCHANGED <<openai_ws, sessionVars, socketVars, handlerExc, initSent,
                   data, response, outFrame>>

\* lines 73-76: close the speech-service socket, suppressing ConnectionClosed.
ShutdownCloseOpenAI ==
    /\ handler = "shutdown_close_openai"
    /\ oaState' = "CLOSED"
    /\ openai_ws' = None
    /\ handler' = "shutdown_close_ws"
    /\ UNCHANGED <<sessionVars, tasks, wsState, handlerExc, shutdownCalls,
                   shutdownOutcome, initSent, recvVars, sendVars>>

\* lines 78-79: close the caller socket, suppressing RuntimeError (already closed).
ShutdownCloseCaller ==
    /\ handler = "shutdown_close_ws"
    /\ wsState' = "closed"
    /\ shutdownOutcome' = "returned"
    /\ handler' = "done"
    /\ UNCHANGED <<bridgeVars, oaState, handlerExc, shutdownCalls, initSent,
                   recvVars, sendVars>>

\* shutdown() invoked again on the same bridge after an earlier call ended.
ShutdownAgain ==
    /\ handler = "done"
    /\ shutdownCalls < MaxShutdownCalls
    /\ handler' = "shutdown"
    /\ UNCHANGED <<bridgeVars, socketVars, handlerExc, shutdownCalls, shutdownOutcome,
                   initSent, recvVars, sendVars>>

\* ---------------------------------------------------------------- the peers
\* The caller hangs up.
CallerDisconnect ==
    /\ wsState = "connected"
    /\ wsState' = "disconnected"
    /\ UNCHANGED <<bridgeVars, oaState, handlerVars, recvVars, sendVars>>

\* The speech service closes the connection, or the connection is lost.
OpenAICloses ==
    /\ oaState = "OPEN"
    /\ oaState' = "CLOSED"
    /\ UNCHANGED <<bridgeVars, wsState, handlerVars, recvVars, sendVars>>

\* ------------------------------------------------------ socket write helpers
\* variant: every payload decodes
B64RoundTrip_Lenient(p) == "canonical"

\* base64.b64encode(base64.b64decode(delta)): the re-encoded payload
B64RoundTrip(p) == IF p = "invalid" THEN "error" ELSE "canonical"

\* variant: the guard is missing
HasStreamSid_Always(sid) == TRUE

\* `if not self.stream_sid: return`
HasStreamSid(sid) == sid # None

\* websocket.send_json(frame) by the outbound relay.  On a connected socket
\* the frame is written.  Once the caller has hung up the outcome depends on
\* the server library: the write is discarded, or it raises and the relay
\* fails (except Exception: raise).
CallerWrite(frame, nextPc) ==
    \/ /\ wsState = "connected"
       /\ outFrame' = frame
       /\ sendTask' = nextPc
    \/ /\ wsState # "connected"
       /\ UNCHANGED outFrame
       /\ sendTask' \in {nextPc, "failed"}

\* ------------------------------------------------------ _receive_from_twilio
\* variant: the timestamp is only ever raised (max of old and new)
RecvMedia_Max(t) ==
    /\ recvTask = "wait"
    /\ wsState = "connected"
    /\ data' = MediaFrame(t)
    /\ IF oaState = "OPEN"
       THEN IF IsNumeric(t)
            THEN /\ latest_media_timestamp' =
                        IF ParseInt(t) > latest_media_timestamp
                        THEN ParseInt(t) ELSE latest_media_timestamp
                 /\ recvTask' = "append_await"
            ELSE /\ recvTask' = "failed"
                 /\ UNCHANGED latest_media_timestamp
       ELSE /\ recvTask' = "wait"
            /\ UNCHANGED latest_media_timestamp
    /\ UNCHANGED <<openai_ws, stream_sid, last_assistant_item, mark_queue,
                   response_start_timestamp_twilio, tasks, socketVars,
                   handlerVars, sendVars>>

\* variant: the state of the speech-service socket is not looked at
RecvMedia_Unguarded(t) ==
    /\ recvTask = "wait"
    /\ wsState = "connected"
    /\ data' = MediaFrame(t)
    /\ IF IsNumeric(t)
       THEN /\ latest_media_timestamp' = ParseInt(t)
            /\ recvTask' = "append_await"
       ELSE /\ recvTask' = "failed"
            /\ UNCHANGED latest_media_timestamp
    /\ UNCHANGED <<openai_ws, stream_sid, last_assistant_item, mark_queue,
                   response_start_timestamp_twilio, tasks, socketVars,
                   handlerVars, sendVars>>

\* event == "media": lines 136-142
RecvMedia(t) ==
    /\ recvTask = "wait"
    /\ wsState = "connected"
    /\ data' = MediaFrame(t)
    /\ IF oaState = "OPEN"
       THEN IF IsNumeric(t)
            THEN /\ latest_media_timestamp' = ParseInt(t)
                 /\ recvTask' = "append_await"
            ELSE \* int() raises ValueError: logged and re-raised
                 /\ recvTask' = "failed"
                 /\ UNCHANGED latest_media_timestamp
       ELSE \* neither branch is taken: the frame is dropped
            /\ recvTask' = "wait"
            /\ UNCHANGED latest_media_timestamp
    /\ UNCHANGED <<openai_ws, stream_sid, last_assistant_item, mark_queue,
                   response_start_timestamp_twilio, tasks, socketVars,
                   handlerVars, sendVars>>

\* `await self.openai_ws.send(json.dumps(audio_append))` returns
RecvAppendDone ==
    /\ recvTask = "append_await"
    /\ recvTask' = "wait"
    /\ UNCHANGED <<bridgeVars, socketVars, handlerVars, data, sendVars>>

\* variant: the utterance identifier survives the restart
RecvStart_KeepsItem(s) ==
    /\ recvTask = "wait"
    /\ wsState = "connected"
    /\ data' = StartFrame(s)
    /\ stream_sid' = s
    /\ response_start_timestamp_twilio' = NoTs
    /\ latest_media_timestamp' = 0
    /\ UNCHANGED <<openai_ws, last_assistant_item, mark_queue, tasks, socketVars,
                   handlerVars, recvTask, sendVars>>

\* variant: the restart resets the media clock but keeps the utterance
RecvStart_OnlyTimestamp(s) ==
    /\ recvTask = "wait"
    /\ wsState = "connected"
    /\ data' = StartFrame(s)
    /\ stream_sid' = s
    /\ latest_media_timestamp' = 0
    /\ UNCHANGED <<openai_ws, last_assistant_item, response_start_timestamp_twilio,
                   mark_queue, tasks, socketVars, handlerVars, recvTask, sendVars>>

\* event == "start": lines 143-148
RecvStart(s) ==
    /\ recvTask = "wait"
    /\ wsState = "connected"
    /\ data' = StartFrame(s)
    /\ stream_sid' = s
    /\ response_start_timestamp_twilio' = NoTs
    /\ latest_media_timestamp' = 0
    /\ last_assistant_item' = None
    /\ UNCHANGED <<openai_ws, mark_queue, tasks, socketVars, handlerVars,
                   recvTask, sendVars>>

\* variant: a mark acknowledges everything that is pending
PopMark_All(q) == <<>>

\* mark_queue.pop(0) guarded by `if self.mark_queue`
PopMark(q) == IF q # <<>> THEN Tail(q) ELSE q

\* event == "mark": lines 149-151
RecvMark ==
    /\ recvTask = "wait"
    /\ wsState = "connected"
    /\ data' = MarkFrame
    /\ mark_queue' = PopMark(mark_queue)
    /\ UNCHANGED <<openai_ws, stream_sid, latest_media_timestamp, last_assistant_item,
                   response_start_timestamp_twilio, tasks, socketVars, handlerVars,
                   recvTask, sendVars>>

\* any other event kind matches no branch
RecvOther ==
    /\ recvTask = "wait"
    /\ wsState = "connected"
    /\ data' = StopFrame
    /\ UNCHANGED <<bridgeVars, socketVars, handlerVars, recvTask, sendVars>>

\* json.loads(message) raises on a malformed frame: except Exception: raise
RecvGarbage ==
    /\ recvTask = "wait"
    /\ wsState = "connected"
    /\ data' = GarbageFrame
    /\ recvTask' = "failed"
    /\ UNCHANGED <<bridgeVars, socketVars, handlerVars, sendVars>>

\* The caller has hung up and WebSocketDisconnect reaches lines 152-155.
RecvDisconnectRaised ==
    /\ recvTask = "wait"
    /\ wsState = "disconnected"
    /\ IF openai_ws # None /\ oaState = "OPEN"
       THEN /\ oaState' = "CLOSED"
            /\ recvTask' = "close_await"
       ELSE /\ recvTask' = "done"
            /\ UNCHANGED oaState
    /\ UNCHANGED <<bridgeVars, wsState, handlerVars, data, sendVars>>

\* `await self.openai_ws.close()` of line 155 returns
RecvCloseDone ==
    /\ recvTask = "close_await"
    /\ recvTask' = "done"
    /\ UNCHANGED <<bridgeVars, socketVars, handlerVars, data, sendVars>>

\* The caller has hung up and the iteration of line 132 simply ends:
\* WebSocket.iter_text() catches WebSocketDisconnect itself and stops, so
\* the except clause of line 152 is not entered and the relay returns.
RecvIterEnds ==
    /\ recvTask = "wait"
    /\ wsState = "disconnected"
    /\ recvTask' = "done"
    /\ UNCHANGED <<bridgeVars, socketVars, handlerVars, data, sendVars>>

\* ----------------------------------------------------------- _send_to_twilio
\* response.output_audio.delta: line 170 and _handle_audio_delta up to the
\* await of the media write (lines 188-205)
SendDelta(i, p) ==
    /\ sendTask = "wait"
    /\ oaState = "OPEN"
    /\ Len(mark_queue) < MaxMarks
    /\ response' = DeltaEvent(i, p)
    /\ IF ~HasStreamSid(stream_sid)
       THEN UNCHANGED <<sendTask, outFrame>>
       ELSE IF B64RoundTrip(p) = "error"
            THEN \* decode failure: logged, the frame is dropped
                 UNCHANGED <<sendTask, outFrame>>
            ELSE CallerWrite(OutMedia(stream_sid, B64RoundTrip(p)), "delta_media_await")
    /\ UNCHANGED <<bridgeVars, socketVars, handlerVars, recvVars, truncate_event>>

\* variant: every delta that names an item restarts the accounting
IsNewItem_AnyItem(item_id, last) == item_id # None

\* `item_id and item_id != self.last_assistant_item`
IsNewItem(item_id, last) == item_id # None /\ item_id # last

\* variant: a new item is recorded without its start timestamp
SendDeltaResume_ItemOnly ==
    /\ sendTask = "delta_media_await"
    /\ IF IsNewItem(response.item_id, last_assistant_item)
       THEN /\ last_assistant_item' = response.item_id
            /\ UNCHANGED response_start_timestamp_twilio
       ELSE UNCHANGED <<response_start_timestamp_twilio, last_assistant_item>>
    /\ IF ~HasStreamSid(stream_sid)
       THEN /\ sendTask' = "wait"
            /\ UNCHANGED outFrame
       ELSE CallerWrite(OutMark(stream_sid), "mark_await")
    /\ UNCHANGED <<openai_ws, stream_sid, latest_media_timestamp, mark_queue, tasks,
                   socketVars, handlerVars, recvVars, response, truncate_event>>

\* _handle_audio_delta after the media write (lines 207-217) and _send_mark
\* up to the await of the mark write (lines 219-228)
SendDeltaResume ==
    /\ sendTask = "delta_media_await"
    /\ IF IsNewItem(response.item_id, last_assistant_item)
       THEN /\ response_start_timestamp_twilio' = latest_media_timestamp
            /\ last_assistant_item' = response.item_id
       ELSE UNCHANGED <<response_start_timestamp_twilio, last_assistant_item>>
    /\ IF ~HasStreamSid(stream_sid)
       THEN /\ sendTask' = "wait"
            /\ UNCHANGED outFrame
       ELSE CallerWrite(OutMark(stream_sid), "mark_await")
    /\ UNCHANGED <<openai_ws, stream_sid, latest_media_timestamp, mark_queue, tasks,
                   socketVars, handlerVars, recvVars, response, truncate_event>>

\* _send_mark after the mark write (line 229)
SendMarkResume ==
    /\ sendTask = "mark_await"
    /\ mark_queue' = Append(mark_queue, "responsePart")
    /\ sendTask' = "wait"
    /\ UNCHANGED <<openai_ws, stream_sid, latest_media_timestamp, last_assistant_item,
                   response_start_timestamp_twilio, tasks, socketVars, handlerVars,
                   recvVars, sendLocals>>

\* variant: operands swapped
ElapsedTime_Swapped(latest, start) == start - latest

\* elapsed_time of lines 235-237
ElapsedTime(latest, start) == latest - start

\* variant: the queue of pending marks is not looked at
SendSpeechStarted_IgnoresQueue ==
    /\ sendTask = "wait"
    /\ oaState = "OPEN"
    /\ response' = SpeechStartedEvent
    /\ IF last_assistant_item = None
       THEN UNCHANGED <<sendTask, truncate_event>>
       ELSE IF response_start_timestamp_twilio = NoTs
            THEN UNCHANGED <<sendTask, truncate_event>>
            ELSE /\ truncate_event' =
                        TruncateMsg(last_assistant_item,
                                    ElapsedTime(latest_media_timestamp,
                                                response_start_timestamp_twilio))
                 /\ sendTask' = "truncate_await"
    /\ UNCHANGED <<bridgeVars, socketVars, handlerVars, recvVars, outFrame>>

\* input_audio_buffer.speech_started: lines 173-181 and
\* _handle_speech_started_event up to the await of the truncate send (231-260)
SendSpeechStarted ==
    /\ sendTask = "wait"
    /\ oaState = "OPEN"
    /\ response' = SpeechStartedEvent
    /\ IF last_assistant_item = None
       THEN UNCHANGED <<sendTask, truncate_event>>
       ELSE IF mark_queue = <<>> \/ response_start_timestamp_twilio = NoTs
            THEN UNCHANGED <<sendTask, truncate_event>>
            ELSE \* last_assistant_item is set and openai_ws is not None here
                 /\ truncate_event' =
                        TruncateMsg(last_assistant_item,
                                    ElapsedTime(latest_media_timestamp,
                                                response_start_timestamp_twilio))
                 /\ sendTask' = "truncate_await"
    /\ UNCHANGED <<bridgeVars, socketVars, handlerVars, recvVars, outFrame>>

\* _handle_speech_started_event after the truncate send, up to the await of
\* the clear write (lines 262-267)
SendTruncateResume ==
    /\ sendTask = "truncate_await"
    /\ CallerWrite(OutClear(stream_sid), "clear_await")
    /\ UNCHANGED <<bridgeVars, socketVars, handlerVars, recvVars, response,
                   truncate_event>>

\* variant: the queue of pending marks is not cleared
SendClearResume_KeepsQueue ==
    /\ sendTask = "clear_await"
    /\ last_assistant_item' = None
    /\ response_start_timestamp_twilio' = NoTs
    /\ sendTask' = "wait"
    /\ truncate_event' = NoMsg
    /\ UNCHANGED <<openai_ws, stream_sid, latest_media_timestamp, mark_queue, tasks,
                   socketVars, handlerVars, recvVars, response, outFrame>>

\* _handle_speech_started_event after the clear write (lines 269-271)
SendClearResume ==
    /\ sendTask = "clear_await"
    /\ mark_queue' = <<>>
    /\ last_assistant_item' = None
    /\ response_start_timestamp_twilio' = NoTs
    /\ sendTask' = "wait"
    /\ truncate_event' = NoMsg
    /\ UNCHANGED <<openai_ws, stream_sid, latest_media_timestamp, tasks, socketVars,
                   handlerVars, recvVars, response, outFrame>>

\* any other event type: at most logged
SendOther ==
    /\ sendTask = "wait"
    /\ oaState = "OPEN"
    /\ response' = OtherEvent
    /\ UNCHANGED <<bridgeVars, socketVars, handlerVars, recvVars, sendTask,
                   truncate_event, outFrame>>

\* json.loads(openai_message) raises: except Exception: raise
SendGarbage ==
    /\ sendTask = "wait"
    /\ oaState = "OPEN"
    /\ response' = GarbageEvent
    /\ sendTask' = "failed"
    /\ UNCHANGED <<bridgeVars, socketVars, handlerVars, recvVars, truncate_event,
                   outFrame>>

\* The speech-service socket is closed: the iteration of line 163 ends, or
\* raises ConnectionClosed, which lines 182-183 log; the relay returns.
SendLoopEnd ==
    /\ sendTask = "wait"
    /\ oaState = "CLOSED"
    /\ sendTask' = "done"
    /\ UNCHANGED <<bridgeVars, socketVars, handlerVars, recvVars, sendLocals>>

\* ------------------------------------------------------------ specification
Connect == ConnectOk \/ ConnectFail

\* Steps the event loop takes on its own, without a new frame from a peer:
\* those of media_stream, of the inbound relay and of the outbound relay.
HandlerInternal ==
    \/ StartAccept \/ Connect \/ InitSend \/ Run
    \/ GatherReturn \/ GatherRaise
    \/ ShutdownTasks \/ ShutdownCloseOpenAI \/ ShutdownCloseCaller

RecvInternal ==
    RecvAppendDone \/ RecvCloseDone \/ RecvDisconnectRaised \/ RecvIterEnds

SendInternal ==
    \/ SendDeltaResume \/ SendMarkResume \/ SendTruncateResume \/ SendClearResume
    \/ SendLoopEnd

Next ==
    \/ StartAccept \/ ConnectOk \/ ConnectFail \/ InitSend \/ Run
    \/ GatherReturn \/ GatherRaise \/ ExternalCancel
    \/ ShutdownTasks \/ ShutdownCloseOpenAI \/ ShutdownCloseCaller \/ ShutdownAgain
    \/ CallerDisconnect \/ OpenAICloses
    \/ \E t \in TimestampTexts : RecvMedia(t)
    \/ RecvAppendDone
    \/ \E s \in StreamSids : RecvStart(s)
    \/ RecvMark \/ RecvOther \/ RecvGarbage
    \/ RecvDisconnectRaised \/ RecvCloseDone \/ RecvIterEnds
    \/ \E i \in ItemIds \cup {None}, p \in Payloads : SendDelta(i, p)
    \/ SendDeltaResume \/ SendMarkResume
    \/ SendSpeechStarted \/ SendTruncateResume \/ SendClearResume
    \/ SendOther \/ SendGarbage \/ SendLoopEnd

Spec == Init /\ [][Next]_vars

\* The bridge driven through its public coroutines: media_stream's calls, and
\* run() called directly while the connection is not established.
ApiNext ==
    \/ StartAccept \/ ConnectOk \/ ConnectFail \/ InitSend \/ Run \/ RunDirect
    \/ GatherReturn \/ GatherRaise \/ ExternalCancel
    \/ ShutdownTasks \/ ShutdownCloseOpenAI \/ ShutdownCloseCaller \/ ShutdownAgain
    \/ CallerDisconnect \/ OpenAICloses
    \/ \E t \in TimestampTexts : RecvMedia(t)
    \/ RecvAppendDone
    \/ \E s \in StreamSids : RecvStart(s)
    \/ RecvMark \/ RecvOther \/ RecvGarbage
    \/ RecvDisconnectRaised \/ RecvCloseDone \/ RecvIterEnds
    \/ \E i \in ItemIds \cup {None}, p \in Payloads : SendDelta(i, p)
    \/ SendDeltaResume \/ SendMarkResume
    \/ SendSpeechStarted \/ SendTruncateResume \/ SendClearResume
    \/ SendOther \/ SendGarbage \/ SendLoopEnd

ApiSpec == Init /\ [][ApiNext]_vars

\* A caller whose media timestamps do not decrease within a stream.  While
\* media is forwarded, latest_media_timestamp (lines 137, 147) is the
\* timestamp of the last media event of the current stream, or 0 at its
\* beginning, so such a caller never sends a timestamp below it; once media
\* is dropped the field is not written again.  A text that is not a number
\* carries no timestamp.
MonotoneInput(t) == IsNumeric(t) => ParseInt(t) >= latest_media_timestamp

MonotoneNext ==
    \/ StartAccept \/ ConnectOk \/ ConnectFail \/ InitSend \/ Run
    \/ GatherReturn \/ GatherRaise \/ ExternalCancel
    \/ ShutdownTasks \/ ShutdownCloseOpenAI \/ ShutdownCloseCaller \/ ShutdownAgain
    \/ CallerDisconnect \/ OpenAICloses
    \/ \E t \in TimestampTexts : MonotoneInput(t) /\ RecvMedia(t)
    \/ RecvAppendDone
    \/ \E s \in StreamSids : RecvStart(s)
    \/ RecvMark \/ RecvOther \/ RecvGarbage
    \/ RecvDisconnectRaised \/ RecvCloseDone \/ RecvIterEnds
    \/ \E i \in ItemIds \cup {None}, p \in Payloads : SendDelta(i, p)
    \/ SendDeltaResume \/ SendMarkResume
    \/ SendSpeechStarted \/ SendTruncateResume \/ SendClearResume
    \/ SendOther \/ SendGarbage \/ SendLoopEnd

MonotoneSpec == Init /\ [][MonotoneNext]_vars

\* The event loop runs every task that is ready: an internal step of a task
\* that stays enabled is eventually taken.  Nothing obliges a peer to send a
\* frame, to hang up or to close.
FairSpec ==
    /\ Spec
    /\ WF_vars(HandlerInternal)
    /\ WF_vars(RecvInternal)
    /\ WF_vars(SendInternal)

TypeOK ==
    /\ openai_ws \in {None, "ws"}
    /\ stream_sid \in StreamSids \cup {None}
    /\ latest_media_timestamp \in 0..MaxTs
    /\ last_assistant_item \in ItemIds \cup {None}
    /\ Len(mark_queue) <= MaxMarks
    /\ response_start_timestamp_twilio \in (0..MaxTs) \cup {NoTs}
    /\ wsState \in {"connecting", "connected", "disconnected", "closed"}
    /\ oaState \in {"NONE", "OPEN", "CLOSED"}
    /\ recvTask \in {"unborn"} \cup LiveStates \cup FinalStates
    /\ sendTask \in {"unborn"} \cup LiveStates \cup FinalStates
    /\ shutdownCalls \in 0..MaxShutdownCalls

\* ===================================================================== claims

\* C1: shutdown() never raises, whatever happened before: whenever a call of
\* shutdown has ended it has returned normally and both the speech-service
\* socket and the caller socket are closed -- also after a relay task failed
\* with a non-cancellation exception.
C1_ShutdownNeverRaises ==
    (handler = "done" /\ shutdownCalls >= 1) =>
        /\ shutdownOutcome = "returned"
        /\ oaState # "OPEN"
        /\ wsState = "closed"

\* C2: shutdown() is idempotent: after the first and after the second of two
\* successive calls there is no error, both sockets are closed, and no relay
\* task is registered in _tasks or still running.
C2_ShutdownIdempotent ==
    (handler = "done" /\ shutdownCalls \in 1..MaxShutdownCalls) =>
        /\ shutdownOutcome # "raised"
        /\ oaState # "OPEN" /\ openai_ws = None
        /\ wsState = "closed"
        /\ tasks = <<>>
        /\ recvTask \notin LiveStates /\ sendTask \notin LiveStates

\* C3: no media, mark or clear frame is written to the caller socket before
\* a start event has made the stream identifier known; as long as stream_sid
\* is None nothing has been written at all.
C3_NoFrameBeforeStreamSid ==
    /\ outFrame.event \in {"media", "mark", "clear"} =>
           (stream_sid # None /\ outFrame.streamSid \in StreamSids)
    /\ stream_sid = None => outFrame = NoOut

\* an audio delta with a decodable payload has been received before any start
\* event, and nothing was written
C3_Witness ==
    /\ response.type = "response.output_audio.delta"
    /\ response.delta = "canonical"
    /\ stream_sid = None
    /\ sendTask = "wait"
    /\ outFrame = NoOut

\* C4: once the outbound relay has ended because the speech-service socket
\* closed, run() eventually returns, shutdown runs and the caller socket is
\* closed; the bridge does not stay up with only the inbound relay alive.
C4_UpstreamLossEndsCall ==
    (handler = "gather" /\ sendTask = "done") ~> (wsState = "closed")

\* C5: after the caller hangs up while the bridge runs, both relays
\* eventually stop (the inbound relay closes the speech-service socket, the
\* outbound relay then ends, run() returns and shutdown executes).
C5_CallerDisconnectStopsRelays ==
    (handler = "gather" /\ wsState = "disconnected") ~>
        (recvTask \in FinalStates /\ sendTask \in FinalStates /\ handler # "gather")

\* A step in which the inbound relay reads frame f from the caller socket
\* (only the relay's own state and the session fields may change in it).
RecvReads(f) ==
    /\ recvTask = "wait"
    /\ wsState = "connected"
    /\ data' = f
    /\ UNCHANGED <<handlerVars, sendVars, socketVars, openai_ws, tasks>>

\* A step in which the outbound relay reads event e from the speech service
\* (a step that changes none of the relay's own variables is not its step).
SendReads(e) ==
    /\ sendTask = "wait"
    /\ oaState = "OPEN"
    /\ response' = e
    /\ sendVars' # sendVars
    /\ UNCHANGED <<handlerVars, recvVars, socketVars, openai_ws, tasks>>

\* C6: a start event stores the new stream identifier and resets
\* latest_media_timestamp to 0 and last_assistant_item and
\* response_start_timestamp_twilio to None, whatever the state before.
C6_StartResets ==
    [][\A s \in StreamSids :
          RecvReads(StartFrame(s)) =>
              /\ stream_sid' = s
              /\ latest_media_timestamp' = 0
              /\ last_assistant_item' = None
              /\ response_start_timestamp_twilio' = NoTs]_vars

\* a restart onto another stream has just been processed while marks of the
\* previous stream's utterance were still pending
C6_Witness ==
    /\ data.event = "start"
    /\ stream_sid = data.streamSid
    /\ outFrame.event = "mark" /\ outFrame.streamSid # stream_sid
    /\ mark_queue # <<>>
    /\ last_assistant_item = None
    /\ response_start_timestamp_twilio = NoTs
    /\ latest_media_timestamp = 0

\* C7 as stated: within one logical stream (any step that is not the reading
\* of a start event) latest_media_timestamp never decreases.
C7_Original ==
    [][(~ \E s \in StreamSids : RecvReads(StartFrame(s))) =>
           latest_media_timestamp' >= latest_media_timestamp]_vars

\* C7 as amended: a media event that is forwarded sets
\* latest_media_timestamp to its timestamp; a media event that is not
\* forwarded leaves it unchanged; nothing but a media or a start event
\* changes it.  So it is non-decreasing within a stream exactly as far as
\* the timestamps the caller sends are.
C7_TimestampFollowsMedia ==
    [][/\ \A n \in 0..MaxTs :
             (RecvReads(MediaFrame(ToText(n))) /\ recvTask' = "append_await") =>
                 latest_media_timestamp' = n
       /\ \A n \in 0..MaxTs :
             (RecvReads(MediaFrame(ToText(n))) /\ n >= latest_media_timestamp) =>
                 latest_media_timestamp' >= latest_media_timestamp
       /\ \A t \in TimestampTexts :
             (RecvReads(MediaFrame(t)) /\ recvTask' # "append_await") =>
                 latest_media_timestamp' = latest_media_timestamp
       /\ latest_media_timestamp' # latest_media_timestamp =>
             \/ \E t \in TimestampTexts : RecvReads(MediaFrame(t))
             \/ \E s \in StreamSids : RecvReads(StartFrame(s))]_vars

\* a media event with a smaller timestamp than an earlier one of the same
\* stream has been forwarded
C7_Witness ==
    /\ recvTask = "append_await"
    /\ data = MediaFrame(ToText(1))
    /\ latest_media_timestamp = 1
    /\ response_start_timestamp_twilio = MaxTs

\* C8 as stated: every audio delta naming an item other than the current
\* one sets last_assistant_item to it and response_start_timestamp_twilio to
\* the latest media timestamp, by the time its handling is over.
C8_Original ==
    [][\A i \in ItemIds :
          (/\ SendReads(DeltaEvent(i, "canonical"))
           /\ i # last_assistant_item
           /\ sendTask' = "wait") =>
              /\ last_assistant_item' = i
              /\ response_start_timestamp_twilio' = latest_media_timestamp]_vars

\* C8 as amended: for every audio delta that is relayed to the caller
\* (stream identifier known, payload decodable), when its media write has
\* completed: if its item identifier is set and differs from
\* last_assistant_item at that moment, response_start_timestamp_twilio
\* becomes the latest_media_timestamp of that moment and last_assistant_item
\* the identifier; otherwise both are unchanged.  A delta that is not
\* relayed changes neither.
C8_NewItemSetsStart ==
    [][/\ (sendTask = "delta_media_await" /\ sendTask' \in {"mark_await", "wait", "failed"}) =>
             IF response.item_id # None /\ response.item_id # last_assistant_item
             THEN /\ response_start_timestamp_twilio' = latest_media_timestamp
                  /\ last_assistant_item' = response.item_id
             ELSE /\ response_start_timestamp_twilio' = response_start_timestamp_twilio
                  /\ last_assistant_item' = last_assistant_item
       /\ \A i \in ItemIds \cup {None}, p \in Payloads :
             SendReads(DeltaEvent(i, p)) =>
                 UNCHANGED <<response_start_timestamp_twilio, last_assistant_item>>]_vars

\* media with timestamp 1, then a delta of item "A": the start is 1
C8_Witness ==
    /\ sendTask = "mark_await"
    /\ response.item_id = "A"
    /\ last_assistant_item = "A"
    /\ data = MediaFrame(ToText(1))
    /\ latest_media_timestamp = 1
    /\ response_start_timestamp_twilio = 1

\* C9: the truncate instruction of a barge-in carries the item in progress
\* and latest_media_timestamp - response_start_timestamp_twilio as they are
\* when the barge-in is triggered, and what the inbound relay does while the
\* barge-in is suspended does not alter it.
C9_TruncateAtTrigger ==
    [][/\ (sendTask = "wait" /\ sendTask' = "truncate_await") =>
             /\ last_assistant_item \in ItemIds
             /\ response_start_timestamp_twilio # NoTs
             /\ truncate_event' =
                    [type |-> "conversation.item.truncate",
                     item_id |-> last_assistant_item,
                     audio_end_ms |-> latest_media_timestamp
                                          - response_start_timestamp_twilio]
       /\ (sendTask = "truncate_await" /\ sendTask' \in {"truncate_await", "clear_await"}) =>
             truncate_event' = truncate_event]_vars

\* utterance started at 1, media advanced to 2: audio_end_ms is 1, and a
\* start event processed during the truncate send has not changed it
C9_Witness ==
    /\ sendTask = "truncate_await"
    /\ truncate_event.audio_end_ms = 1
    /\ truncate_event.item_id \in ItemIds
    /\ data.event = "start"
    /\ response_start_timestamp_twilio = NoTs
    /\ latest_media_timestamp = 0

\* C10: the step that completes a barge-in leaves mark_queue empty and
\* last_assistant_item and response_start_timestamp_twilio None, and it comes
\* after the truncate send and the clear write, neither of which resets
\* anything; a mark event read with the queue empty changes nothing.
C10_BargeInResets ==
    [][/\ (sendTask = "clear_await" /\ sendTask' = "wait") =>
             /\ mark_queue' = <<>>
             /\ last_assistant_item' = None
             /\ response_start_timestamp_twilio' = NoTs
             /\ truncate_event.type = "conversation.item.truncate"
             /\ (outFrame.event = "clear" \/ wsState # "connected")
       /\ (sendTask = "wait" /\ sendTask' = "truncate_await") =>
             UNCHANGED sessionVars
       /\ (sendTask = "truncate_await" /\ sendTask' = "clear_await") =>
             UNCHANGED sessionVars
       /\ (RecvReads(MarkFrame) /\ mark_queue = <<>>) =>
             (UNCHANGED sessionVars /\ recvTask' = "wait")]_vars

\* a barge-in has been processed (its clear was the last frame written) and
\* a mark event has been read with the queue empty
C10_Witness ==
    /\ outFrame.event = "clear"
    /\ response = SpeechStartedEvent
    /\ sendTask = "wait"
    /\ data = MarkFrame
    /\ recvTask = "wait"
    /\ mark_queue = <<>>
    /\ last_assistant_item = None
    /\ response_start_timestamp_twilio = NoTs

\* Frames the inbound relay can read that are not mark events.
NonMarkFrames ==
    {MediaFrame(t) : t \in TimestampTexts} \cup {StartFrame(s) : s \in StreamSids}
        \cup {StopFrame, GarbageFrame}

\* C11: a mark event read with mark_queue non-empty removes exactly one entry,
\* the one at the front, and the relay goes on; read with the queue empty it
\* changes nothing and raises nothing; no other step of the inbound relay
\* (media, start, stop, malformed frame, resumption, disconnect) changes
\* mark_queue.
C11_MarkPopsFront ==
    [][/\ (RecvReads(MarkFrame) /\ mark_queue # <<>>) =>
             /\ mark_queue' = Tail(mark_queue)
             /\ Len(mark_queue') = Len(mark_queue) - 1
             /\ recvTask' = "wait"
       /\ (RecvReads(MarkFrame) /\ mark_queue = <<>>) =>
             /\ mark_queue' = <<>>
             /\ recvTask' = "wait"
       /\ \A f \in NonMarkFrames : RecvReads(f) => mark_queue' = mark_queue
       /\ (recvTask' # recvTask /\ recvTask # "wait") => mark_queue' = mark_queue]_vars

\* the caller is connected, the last frame written was a mark whose entry
\* was appended, and a mark event has emptied the queue again
C11_Witness ==
    /\ wsState = "connected"
    /\ outFrame.event = "mark"
    /\ sendTask = "wait"
    /\ data = MarkFrame
    /\ recvTask = "wait"
    /\ mark_queue = <<>>
    /\ last_assistant_item \in ItemIds

\* C12: when the connection attempt of start() has failed (the attempt is
\* over and the speech-service socket was never opened), the exception has
\* left start(), media_stream is in shutdown or past it and never in run(),
\* no session message was sent, no relay task was created or registered,
\* shutdown does not raise, and once it has returned the caller socket is
\* closed; the connection is not attempted again.
C12_ConnectFailureSkipsRun ==
    (oaState = "NONE" /\ handler \notin {"start", "connect"}) =>
        /\ handlerExc = "ConnectError"
        /\ handler \in {"shutdown", "shutdown_close_ws", "done"}
        /\ openai_ws = None
        /\ initSent = <<>>
        /\ tasks = <<>>
        /\ recvTask = "unborn" /\ sendTask = "unborn"
        /\ shutdownOutcome # "raised"
        /\ (shutdownOutcome = "returned" => wsState = "closed")
        /\ (handler = "done" => shutdownOutcome = "returned")

\* the connection failed and the shutdown that followed has closed the
\* caller socket
C12_Witness ==
    /\ handlerExc = "ConnectError"
    /\ oaState = "NONE"
    /\ handler = "done"
    /\ shutdownCalls = 1
    /\ shutdownOutcome = "returned"
    /\ wsState = "closed"
    /\ recvTask = "unborn" /\ sendTask = "unborn"

\* C13: run() entered while openai_ws is None (before start() has connected,
\* or after shutdown() has reset it) raises RuntimeError("OpenAI websocket
\* not initialized"): that is the only step taken there, and it creates and
\* registers no relay task, sends nothing on either socket and changes no
\* bridge attribute.
C13_RunRequiresConnection ==
    [][(handler = "run" /\ openai_ws = None) =>
           /\ handlerExc' = "RuntimeError"
           /\ handler' = "shutdown"
           /\ tasks' = tasks
           /\ recvTask' = recvTask /\ recvTask \notin LiveStates
           /\ sendTask' = sendTask /\ sendTask \notin LiveStates
           /\ UNCHANGED <<bridgeVars, socketVars, initSent, data, sendLocals>>]_vars

\* after a call that ran and was shut down, run() was called again and has
\* raised; the relay tasks of the first call are over and none was added
C13_Witness ==
    /\ handlerExc = "RuntimeError"
    /\ handler = "shutdown"
    /\ shutdownCalls = 1
    /\ openai_ws = None
    /\ oaState = "CLOSED"
    /\ tasks = <<>>
    /\ recvTask \in FinalStates /\ sendTask \in FinalStates

\* C14: the messages of the session initialization reach the speech service
\* once and in the order session.update, conversation.item.create,
\* response.create (what has been sent so far is always a prefix of that
\* sequence), and all three have been sent before run() is entered, before a
\* relay task exists, and so before a relay has read a frame from either
\* socket, sent an input_audio_buffer.append or a truncate instruction, or
\* written to the caller.
C14_InitBeforeRelays ==
    LET InitSequence == <<"session.update", "conversation.item.create",
                          "response.create">>
    IN /\ \E n \in 0..3 : initSent = SubSeq(InitSequence, 1, n)
       /\ (\/ handler \in {"run", "gather"}
           \/ tasks # <<>>
           \/ recvTask # "unborn" \/ sendTask # "unborn"
           \/ data # NoFrame \/ response # NoEvent
           \/ truncate_event # NoMsg \/ outFrame # NoOut)
              => initSent = InitSequence

\* both relays run: an append and a truncate are being sent, after exactly
\* the three initialization messages
C14_Witness ==
    /\ handler = "gather"
    /\ Len(initSent) = 3
    /\ initSent[1] = "session.update" /\ initSent[3] = "response.create"
    /\ recvTask = "append_await"
    /\ sendTask = "truncate_await"

\* C15: a media event read while the speech-service socket is not OPEN is
\* dropped: no input_audio_buffer.append is sent (the relay does not suspend
\* on a send), the relay neither fails nor ends but waits for the next
\* frame, and no session field changes -- whatever the timestamp text is.
C15_MediaDroppedWhenNotOpen ==
    [][\A t \in TimestampTexts :
          (RecvReads(MediaFrame(t)) /\ oaState # "OPEN") =>
              /\ recvTask' = "wait"
              /\ UNCHANGED sessionVars]_vars

\* after the speech service closed, a media event with an unparsable
\* timestamp was read and the relay is still waiting for frames
C15_Witness ==
    /\ handler = "gather"
    /\ oaState = "CLOSED"
    /\ data = MediaFrame(BadText)
    /\ recvTask = "wait"
    /\ latest_media_timestamp = 1

\* C16: an audio delta whose payload does not decode is dropped: nothing is
\* written to the caller (no media, no mark), mark_queue,
\* last_assistant_item, response_start_timestamp_twilio and the other
\* session fields are unchanged, and the outbound relay waits for the next
\* event.
C16_UndecodableDeltaDropped ==
    [][\A i \in ItemIds \cup {None} :
          SendReads(DeltaEvent(i, "invalid")) =>
              /\ sendTask' = "wait"
              /\ outFrame' = outFrame
              /\ truncate_event' = truncate_event
              /\ UNCHANGED sessionVars]_vars

\* the stream is known, a delta of item "A" with an undecodable payload was
\* read, and still nothing has been written or recorded
C16_Witness ==
    /\ wsState = "connected"
    /\ stream_sid \in StreamSids
    /\ response = DeltaEvent("A", "invalid")
    /\ sendTask = "wait"
    /\ outFrame = NoOut
    /\ mark_queue = <<>>
    /\ last_assistant_item = None
    /\ response_start_timestamp_twilio = NoTs

\* C17: a speech_started event read while last_assistant_item is None, or
\* mark_queue is empty, or response_start_timestamp_twilio is None, does
\* nothing: no truncate instruction is built or sent, nothing is written to
\* the caller, no session field changes, and the relay waits for the next
\* event.
C17_SpeechStartedNoOp ==
    [][(/\ SendReads(SpeechStartedEvent)
        /\ \/ last_assistant_item = None
           \/ mark_queue = <<>>
           \/ response_start_timestamp_twilio = NoTs) =>
           /\ sendTask' = "wait"
           /\ truncate_event' = NoMsg
           /\ outFrame' = outFrame
           /\ UNCHANGED sessionVars]_vars

\* an utterance is in progress, its only mark has been acknowledged, and the
\* speech_started event read after that left the mark as the last frame
\* written and the utterance in place
C17_Witness ==
    /\ wsState = "connected"
    /\ response = SpeechStartedEvent
    /\ sendTask = "wait"
    /\ truncate_event = NoMsg
    /\ outFrame.event = "mark"
    /\ data = MarkFrame
    /\ mark_queue = <<>>
    /\ last_assistant_item \in ItemIds
    /\ response_start_timestamp_twilio # NoTs

\* C18: in every state, so at every await of either relay and under every
\* interleaving, response_start_timestamp_twilio is None exactly when
\* last_assistant_item is None.
C18_StartAndItemTogether ==
    (response_start_timestamp_twilio = NoTs) <=> (last_assistant_item = None)

\* both relays are suspended (append send, mark write) with an utterance
\* recorded: item and start timestamp are both set
C18_Witness ==
    /\ recvTask = "append_await"
    /\ sendTask = "mark_await"
    /\ last_assistant_item \in ItemIds
    /\ response_start_timestamp_twilio \in 0..MaxTs

\* C19: when the caller's media timestamps do not decrease within a stream
\* (MonotoneSpec), every truncate instruction built by a barge-in has
\* audio_end_ms >= 0 and the start timestamp of an utterance is never ahead
\* of latest_media_timestamp, in every interleaving of start, media, audio
\* delta and speech_started events.
C19_AudioEndNonNegative ==
    /\ truncate_event.type = "conversation.item.truncate" =>
           truncate_event.audio_end_ms >= 0
    /\ response_start_timestamp_twilio # NoTs =>
           latest_media_timestamp >= response_start_timestamp_twilio

\* on the second stream an utterance started at 1 is interrupted when media
\* has advanced to 2: audio_end_ms is 1
C19_Witness ==
    /\ sendTask = "truncate_await"
    /\ stream_sid = "MZ2"
    /\ outFrame = OutMark("MZ2")
    /\ response_start_timestamp_twilio = 1
    /\ latest_media_timestamp = 2
    /\ truncate_event.audio_end_ms = 1

\* C20: the clear frame a barge-in writes after its truncate send names the
\* stream that was current when the barge-in was triggered.  At the trigger
\* the last frame written to the caller is a media or mark frame of the
\* interrupted utterance, on the stream current at that moment, and nothing
\* is written while the truncate send is pending; so the clear must carry
\* the stream identifier of the frame written before it.
C20_ClearOnTriggerStream ==
    [][(/\ sendTask = "truncate_await"
        /\ sendTask' = "clear_await"
        /\ wsState = "connected") =>
           outFrame' = OutClear(outFrame.streamSid)]_vars

====
